---------------------------- MODULE Spec2Model ----------------------------
(***************************************************************************)
(* Model of tap_eloqua/sync.py: the orchestrator sync(), the bulk export   *)
(* driver sync_bulk_obj()/stream_export(), the paged syncs                 *)
(* sync_visitors()/sync_campaigns()/sync_emails()/sync_forms(), and the    *)
(* bookmark store get_bookmark()/write_bookmark().                         *)
(*                                                                         *)
(* Time.  An instant is a natural number of half-second ticks, so that     *)
(* pendulum's to_datetime_string(), which drops the sub-second part, is    *)
(* not the identity.  0 stands for Python's None in max_updated_at.        *)
(*                                                                         *)
(* Server.  The remote API is the environment.  It honours the filter it   *)
(* is sent (every returned record has update-time >= the filter) and, for  *)
(* the REST lists, the orderBy it is sent (records ascending across        *)
(* pages).  Any network call may instead raise a transport error.          *)
(***************************************************************************)
EXTENDS Integers, Sequences, FiniteSets, TLC

VARIABLES
    selected,        \* get_selected_streams(catalog) of the current run
    state,           \* the in-memory RunState dict of the current run
    persisted,       \* the last state handed to singer.write_state (or the input state)
    pc,              \* position of the run: start, plan, submit, poll, sleep, drain, fetch, done, failed
    last_stream,     \* sync(): last_stream, read once
    idx,             \* sync(): position in the plan
    stream_name,     \* the entity whose sync is running ("None" between syncs)
    last_date,       \* the filter value computed at the start of the entity sync
    sleep,           \* sync_bulk_obj(): sleep
    elapsed,         \* sync_bulk_obj(): time.time() - start_time at the last poll
    status,          \* sync_bulk_obj(): the last polled status
    offset,          \* stream_export(): offset
    max_updated_at,  \* stream_export(): max_updated_at (0 is None)
    page,            \* paged syncs: page
    error,           \* the exception that ended the run, NoError when none
    job,             \* server: polls for which the export job still answers pending
    cursor,          \* server: update-time of the last record served by the REST list
    latency,         \* server: pending answers a job may give before it completes (Forever: no limit)
    restarted,       \* whether this is the run that follows the first one
    \* ---- observation (history) variables, none read by the program ----
    started,         \* entities whose sync started in this run, in order
    completed,       \* entities whose sync returned in this run, in order
    rows_seen,       \* update-times of all rows drained in this export
    schema_writes,   \* write_schema calls in this entity sync
    records_out,     \* whether a record was emitted in this entity sync
    def_calls,       \* export_create_def calls in this entity sync
    sync_calls,      \* export_create_sync calls in this entity sync
    bm_writes,       \* write_bookmark calls in this entity sync
    bm_before,       \* bookmarks at the start of this entity sync
    last_page,       \* the records of the list page fetched last in this entity sync
    full_pages,      \* list pages of exactly count records received in this entity sync
    prev_run         \* how the previous run ended: its in-progress entity and completed ones

vars == <<selected, state, persisted, pc, last_stream, idx, stream_name, last_date,
          sleep, elapsed, status, offset, max_updated_at, page, error, job, cursor,
          latency, restarted, started, completed, rows_seen,
          schema_writes, records_out, def_calls, sync_calls, bm_writes, bm_before,
          last_page, prev_run, full_pages>>

-----------------------------------------------------------------------------
(* Bounds of the model *)

\* instants run from StartDate to MaxT (half-second ticks)
MaxT == 4
\* result pages the server serves for one export or one REST list
MaxPages == 2
\* rows on one export result page
MaxRows == 2
\* pending answers a job gives before it completes, in Spec
MaxPending == 2

-----------------------------------------------------------------------------
(* Program constants *)

MIN_RETRY_INTERVAL == 2
MAX_RETRY_INTERVAL == 300
MAX_RETRY_ELAPSED_TIME == 3600
\* stream_export(): limit
limit == 50000
\* paged syncs: count.  The source asks for 1000 records a page; the model lists a
\* page record by record, so the page size is a bound of the model.
count == 2
\* max_updated_at = None
NoTime == 0
\* the configured start date (config input), a whole second
start_date == 2

None == "None"
NoError == [kind |-> "none", stream |-> None, status |-> None]
\* no limit on the pending answers of a job
Forever == 0 - 1

T == start_date..MaxT
\* instants that are whole seconds
WholeSeconds == {t \in T : t % 2 = 0}

-----------------------------------------------------------------------------
(* The entity plan *)

BUILT_IN_BULK_OBJECTS == <<"accounts">>
ACTIVITY_TYPES == <<"EmailOpen">>
activity_type_to_stream(activity_type) ==
    CASE activity_type = "EmailOpen" -> "activity_email_open"
\* the streams of the catalog whose root metadata holds a tap-eloqua.id
get_custom_obj_streams == <<"custom_1">>

\* mutant of Plan: the REST entities come before the exports
Plan_lists_first ==
    <<"visitors", "campaigns", "emails", "forms">>
      \o BUILT_IN_BULK_OBJECTS
      \o [i \in 1..Len(ACTIVITY_TYPES) |-> activity_type_to_stream(ACTIVITY_TYPES[i])]
      \o get_custom_obj_streams

\* the order in which sync() walks the entities
Plan ==
    BUILT_IN_BULK_OBJECTS
      \o [i \in 1..Len(ACTIVITY_TYPES) |-> activity_type_to_stream(ACTIVITY_TYPES[i])]
      \o get_custom_obj_streams
      \o <<"visitors", "campaigns", "emails", "forms">>

Entities == {Plan[i] : i \in 1..Len(Plan)}
Assets == {"campaigns", "emails", "forms"}
Paged == Assets \cup {"visitors"}
Bulk == Entities \ Paged

-----------------------------------------------------------------------------
(* Pure functions of the program *)

Min(a, b) == IF a <= b THEN a ELSE b
SetMax(S) == CHOOSE x \in S : \A y \in S : y <= x
SetMin(S) == CHOOSE x \in S : \A y \in S : x <= y
SeqsUpTo(S, n) == UNION {[1..k -> S] : k \in 0..n}
Range(s) == {s[i] : i \in 1..Len(s)}
Ascending(s) == \A i \in 1..Len(s) : \A j \in i..Len(s) : s[i] <= s[j]

\* random.randint(a, b): the values a draw may give
randint(a, b) == a..b

\* the draws a run of the poll loop follows: the smallest and the largest
Sampled(S) == {SetMin(S), SetMax(S)}

\* "x or y" on numbers
Or(x, y) == IF x # 0 THEN x ELSE y

\* mutant of next_sleep_interval: the draw is not capped
next_sleep_interval_uncapped(previous_sleep_interval) ==
    LET min_interval == Or(previous_sleep_interval, MIN_RETRY_INTERVAL)
        max_interval == Or(previous_sleep_interval * 2, MIN_RETRY_INTERVAL)
    IN  randint(min_interval, max_interval)

\* the values next_sleep_interval(previous_sleep_interval) may return
next_sleep_interval(previous_sleep_interval) ==
    LET min_interval == Or(previous_sleep_interval, MIN_RETRY_INTERVAL)
        max_interval == Or(previous_sleep_interval * 2, MIN_RETRY_INTERVAL)
    IN  {Min(MAX_RETRY_INTERVAL, r) : r \in randint(min_interval, max_interval)}

get_bookmark(st, stream, default) ==
    IF "visitors" \in DOMAIN st.bookmarks THEN st.bookmarks["visitors"] ELSE default

\* the dict after state['bookmarks'][stream] = value
write_bookmark(st, stream, value) ==
    [st EXCEPT !.bookmarks =
        [e \in DOMAIN st.bookmarks \cup {stream} |->
            IF e = stream THEN value ELSE st.bookmarks[e]]]

\* the dict after state['current_stream'] = stream_name
update_current_stream(st, name) == [st EXCEPT !.current_stream = name]

\* mutant of write_state: the bookmarks are left out of the blob
write_state_current_only(st) == [st EXCEPT !.bookmarks = [e \in {} |-> NoTime]]

\* singer.write_state(state): the blob that is persisted
write_state(st) == st

\* mutants of should_sync_stream: the resume point is ignored; the pass goes on
\* with the selected entities after the resume point
should_sync_stream_selected_only(last, selected_streams, name) ==
    name \in selected_streams
should_sync_stream_and_selected(last, selected_streams, name) ==
    last = name \/ name \in selected_streams

should_sync_stream(last, selected_streams, name) ==
    last = name \/ (last = None /\ name \in selected_streams)

\* pendulum.parse(raw).to_datetime_string(): 'YYYY-MM-DD HH:MM:SS', sub-second part dropped
to_datetime_string(t) == t - (t % 2)

\* int(records[-1]['updatedAt']): the whole seconds of a unix timestamp
int(t) == t - (t % 2)

\* pendulum.from_timestamp(t).to_iso8601_string(): the instant, unchanged
from_timestamp(t) == t

\* mutant of Truthy: the bookmark is written whatever was drained
Truthy_always(v) == TRUE

\* Python truthiness of max_updated_at
Truthy(v) == v # NoTime

\* mutant of running_max: the maximum of the page drained last
running_max_of_page(current, items) == SetMax(Range(items))

\* the running maximum of stream_export (lines 92-94)
running_max(current, items) ==
    LET max_page_updated_at == SetMax(Range(items))
    IN  IF current = NoTime \/ max_page_updated_at > current
        THEN max_page_updated_at ELSE current

\* mutant of page_bookmark: the first record of the page
page_bookmark_first(entity, records) ==
    IF entity = "visitors"
    THEN from_timestamp(records[1])
    ELSE from_timestamp(int(records[1]))

\* the value a paged sync bookmarks after a non-empty page
page_bookmark(entity, records) ==
    IF entity = "visitors"
    THEN from_timestamp(records[Len(records)])
    ELSE from_timestamp(int(records[Len(records)]))

-----------------------------------------------------------------------------
(* The server *)

\* the update-times a record returned for the filter may carry: the REST lists
\* carry unix timestamps (whole seconds), export rows carry sub-second timestamps
Matching(entity, filter) ==
    {t \in (IF entity \in Paged THEN WholeSeconds ELSE T) : t >= filter}

\* the statuses a poll may return: pending only while the job has pending answers left
PollStatuses == (IF job # 0 THEN {"pending"} ELSE {}) \cup {"success", "active", "error"}

\* the pages of a REST list: ascending, after the records already served, short on the last page
ListPages ==
    {r \in SeqsUpTo(Matching(stream_name, cursor), count) :
        /\ Ascending(r)
        /\ page = MaxPages => Len(r) < count}

\* the pages of an export's data: rows in any order
ExportPages == SeqsUpTo(Matching(stream_name, last_date), MaxRows)

-----------------------------------------------------------------------------
(* Initial states *)

EmptyState == [current_stream |-> None, bookmarks |-> [e \in {} |-> NoTime]]
NoRun == [current |-> None, in_progress |-> None, completed |-> {}]

\* the catalog selections of the model: nothing, one entity, or two entities that
\* follow each other in the plan
Selections ==
    {{}} \cup {{e} : e \in Entities} \cup {{Plan[i], Plan[i + 1]} : i \in 1..(Len(Plan) - 1)}

\* the selections of the run that follows a run with selection S
Reselections(S) == {S, {}} \cup {S \ {e} : e \in S}

InitRun(sel, st) ==
    /\ selected = sel
    /\ state = st
    /\ persisted = st
    /\ pc = "start"
    /\ last_stream = None
    /\ idx = 0
    /\ stream_name = None
    /\ last_date = NoTime
    /\ sleep = 0
    /\ elapsed = 0
    /\ status = None
    /\ offset = 0
    /\ max_updated_at = NoTime
    /\ page = 0
    /\ error = NoError
    /\ job = 0
    /\ cursor = NoTime
    /\ started = <<>>
    /\ completed = <<>>
    /\ rows_seen = {}
    /\ schema_writes = 0
    /\ records_out = FALSE
    /\ def_calls = 0
    /\ sync_calls = 0
    /\ bm_writes = 0
    /\ bm_before = st.bookmarks
    /\ last_page = <<>>
    /\ full_pages = 0

\* a first run: no RunState yet
Init ==
    /\ \E sel \in Selections : InitRun(sel, EmptyState)
    /\ latency = MaxPending
    /\ restarted = FALSE
    /\ prev_run = NoRun

-----------------------------------------------------------------------------
(* sync() *)

\* mutant of Eligible: the resume pointer is read again at every entity
Eligible_reread(i) == should_sync_stream(state.current_stream, selected, Plan[i])

\* whether the entity at plan position i is synced in this pass
Eligible(i) == should_sync_stream(last_stream, selected, Plan[i])

\* the first plan position from i on whose entity is synced in this pass
NextIdx(i) ==
    IF \E j \in i..Len(Plan) : Eligible(j)
    THEN CHOOSE j \in i..Len(Plan) : Eligible(j) /\ \A k \in i..(j - 1) : ~Eligible(k)
    ELSE Len(Plan) + 1

InSync == pc \in {"submit", "poll", "sleep", "drain", "fetch"}

\* mutant of not_selected_streams: the run goes on with an empty selection
not_selected_streams_never(selected_streams) == FALSE

\* line 364: "not selected_streams"
not_selected_streams(selected_streams) == selected_streams = {}

\* lines 362-367
SyncStart ==
    /\ pc = "start"
    /\ IF not_selected_streams(selected)
       THEN /\ pc' = "done"
            /\ UNCHANGED <<last_stream, idx>>
       ELSE /\ pc' = "plan"
            /\ last_stream' = state.current_stream
            /\ idx' = 1
    /\ UNCHANGED <<selected, state, persisted, stream_name, last_date, sleep, elapsed,
                   status, offset, max_updated_at, page, error, job, cursor, latency,
                   restarted, started, completed, rows_seen,
                   schema_writes, records_out, def_calls, sync_calls, bm_writes,
                   bm_before, last_page, prev_run, full_pages>>

\* mutant of schema_at_start: every sync writes its schema at its head
schema_at_start_always(e) == 1

\* write_schema calls in the head of an entity sync: the paged syncs write the
\* schema first (line 198); sync_bulk_obj leaves it to stream_export (line 71)
schema_at_start(e) == IF e \in Bulk THEN 0 ELSE 1

\* one eligible entity of the plan: update_current_stream, then the head of its sync
\* up to its first network call (sync_bulk_obj lines 100-141, paged syncs lines 198-205)
StartEntity ==
    /\ pc = "plan"
    /\ NextIdx(idx) <= Len(Plan)
    /\ LET i == NextIdx(idx)
           e == Plan[i]
           st == update_current_stream(state, e)
       IN  /\ idx' = i
           /\ state' = st
           /\ persisted' = write_state(st)
           /\ stream_name' = e
           /\ started' = Append(started, e)
           /\ bm_before' = st.bookmarks
           /\ last_date' = to_datetime_string(get_bookmark(st, e, start_date))
           /\ cursor' = to_datetime_string(get_bookmark(st, e, start_date))
           /\ IF e \in Bulk
              THEN pc' = "submit" /\ page' = 0
              ELSE pc' = "fetch" /\ page' = 1
           /\ schema_writes' = schema_at_start(e)
    /\ sleep' = 0 /\ elapsed' = 0 /\ status' = None /\ offset' = 0
    /\ max_updated_at' = NoTime /\ job' = 0
    /\ rows_seen' = {} /\ records_out' = FALSE
    /\ def_calls' = 0 /\ sync_calls' = 0 /\ bm_writes' = 0 /\ last_page' = <<>>
    /\ full_pages' = 0
    /\ UNCHANGED <<selected, last_stream, error, latency, restarted,
                   completed, prev_run>>

\* line 415, after the plan is exhausted
FinishRun ==
    /\ pc = "plan"
    /\ NextIdx(idx) > Len(Plan)
    /\ state' = update_current_stream(state, None)
    /\ persisted' = write_state(state')
    /\ pc' = "done"
    /\ idx' = Len(Plan) + 1
    /\ UNCHANGED <<selected, last_stream, stream_name, last_date, sleep, elapsed,
                   status, offset, max_updated_at, page, error, job, cursor, latency,
                   restarted, started, completed, rows_seen,
                   schema_writes, records_out, def_calls, sync_calls, bm_writes,
                   bm_before, last_page, prev_run, full_pages>>

\* an entity sync returns to sync()
EndEntity ==
    /\ pc' = "plan"
    /\ idx' = idx + 1
    /\ completed' = Append(completed, stream_name)

\* mutant of Raise: the exception is caught and the walk of the plan goes on
Raise_caught(kind, st) ==
    /\ pc' = "plan"
    /\ error' = [kind |-> kind, stream |-> stream_name, status |-> st]

\* an exception leaves sync(): the run is over
Raise(kind, st) ==
    /\ pc' = "failed"
    /\ error' = [kind |-> kind, stream |-> stream_name, status |-> st]

-----------------------------------------------------------------------------
(* sync_bulk_obj() and stream_export() *)

\* lines 143-161: the two create calls and the sync id
Submit ==
    /\ pc = "submit"
    /\ \E outcome \in {"ok", "def_error", "sync_error", "no_match"} :
          /\ def_calls' = def_calls + 1
          /\ sync_calls' = IF outcome = "def_error" THEN sync_calls ELSE sync_calls + 1
          /\ IF outcome = "ok"
             THEN /\ pc' = "poll"
                  /\ job' = latency
                  /\ UNCHANGED error
             ELSE /\ Raise(IF outcome = "no_match" THEN "MalformedJobReference"
                                                   ELSE "TransportError", None)
                  /\ UNCHANGED job
    /\ sleep' = 0
    /\ elapsed' = 0
    /\ UNCHANGED <<selected, state, persisted, last_stream, idx, stream_name, last_date,
                   status, offset, max_updated_at, page, cursor, latency,
                   restarted, started, completed, rows_seen, schema_writes, records_out,
                   bm_writes, bm_before, last_page, prev_run, full_pages>>

\* seconds a status poll may take
PollSeconds == {0, 1}

\* mutants of poll_decision: an unknown status is polled again; the deadline is
\* reached at the ceiling instead of beyond it
poll_decision_no_failure(st, now) ==
    IF st = "success" \/ st = "active" THEN "break"
    ELSE IF now > MAX_RETRY_ELAPSED_TIME THEN "deadline"
    ELSE "sleep"
poll_decision_at_ceiling(st, now) ==
    IF st = "success" \/ st = "active" THEN "break"
    ELSE IF st # "pending" THEN "failed"
    ELSE IF now >= MAX_RETRY_ELAPSED_TIME THEN "deadline"
    ELSE "sleep"

\* lines 167-183: what the loop does with a polled status, now seconds after start_time
poll_decision(st, now) ==
    IF st = "success" \/ st = "active" THEN "break"
    ELSE IF st # "pending" THEN "failed"
    ELSE IF now > MAX_RETRY_ELAPSED_TIME THEN "deadline"
    ELSE "sleep"

\* lines 163-183 (one status poll and what the loop decides), and on success or
\* active lines 190-76: stream_export's write_schema and its locals.  sleep and
\* start_time are dead once the loop is left and are cleared.
Poll ==
    /\ pc = "poll"
    /\ \E st \in PollStatuses, d \in PollSeconds :
          /\ status' = st
          /\ job' = IF st # "pending" THEN 0 ELSE IF job > 0 THEN job - 1 ELSE job
          /\ IF poll_decision(st, elapsed + d) = "break"
             THEN /\ pc' = "drain"
                  /\ schema_writes' = schema_writes + 1
                  /\ sleep' = 0
                  /\ elapsed' = 0
                  /\ UNCHANGED error
             ELSE IF poll_decision(st, elapsed + d) = "failed"
             THEN /\ Raise("JobFailed", st)
                  /\ elapsed' = elapsed + d
                  /\ UNCHANGED <<sleep, schema_writes>>
             ELSE IF poll_decision(st, elapsed + d) = "deadline"
             THEN /\ Raise("DeadlineExceeded", st)
                  /\ elapsed' = elapsed + d
                  /\ UNCHANGED <<sleep, schema_writes>>
             ELSE /\ pc' = "sleep"
                  /\ sleep' \in Sampled(next_sleep_interval(sleep))
                  /\ elapsed' = elapsed + d
                  /\ UNCHANGED <<error, schema_writes>>
    /\ offset' = 0
    /\ max_updated_at' = NoTime
    /\ UNCHANGED <<selected, state, persisted, last_stream, idx, stream_name, last_date,
                   page, cursor, latency, restarted, started, completed,
                   rows_seen, records_out, def_calls, sync_calls, bm_writes, bm_before,
                   last_page, prev_run, full_pages>>

\* mutant of loop_head: the loop goes back to the create calls
loop_head_at_submit == "submit"

\* line 162: where "while True" takes the run after the sleep, the status read
loop_head == "poll"

\* line 188: time.sleep(sleep)
Sleep ==
    /\ pc = "sleep"
    /\ elapsed' = elapsed + sleep
    /\ pc' = loop_head
    /\ UNCHANGED <<selected, state, persisted, last_stream, idx, stream_name, last_date,
                   sleep, status, offset, max_updated_at, page, error, job, cursor,
                   latency, restarted, started, completed, rows_seen,
                   schema_writes, records_out, def_calls, sync_calls, bm_writes,
                   bm_before, last_page, prev_run, full_pages>>

\* lines 77-97: one page of the export's data; after the last one, the bookmark
DrainPage ==
    /\ pc = "drain"
    /\ \E items \in ExportPages, hasMore \in BOOLEAN :
          LET new_max == IF items # <<>> THEN running_max(max_updated_at, items)
                                        ELSE max_updated_at
          IN  /\ (offset \div limit) + 1 >= MaxPages => ~hasMore
              /\ offset' = offset + limit
              /\ records_out' = (records_out \/ items # <<>>)
              /\ rows_seen' = rows_seen \cup Range(items)
              /\ max_updated_at' = new_max
              /\ IF hasMore
                 THEN UNCHANGED <<pc, idx, completed, state, persisted, bm_writes>>
                 ELSE /\ EndEntity
                      /\ IF Truthy(new_max)
                         THEN /\ state' = write_bookmark(state, stream_name, new_max)
                              /\ persisted' = write_state(state')
                              /\ bm_writes' = bm_writes + 1
                         ELSE UNCHANGED <<state, persisted, bm_writes>>
    /\ UNCHANGED <<selected, last_stream, stream_name, last_date, sleep, elapsed, status,
                   page, error, job, cursor, latency, restarted, started,
                   schema_writes, def_calls, sync_calls, bm_before, last_page, prev_run, full_pages>>

-----------------------------------------------------------------------------
(* sync_visitors(), sync_campaigns(), sync_emails(), sync_forms() *)

\* mutant of loop_ends: the loop goes on until a page comes empty
loop_ends_on_empty(records) == records = <<>>

\* lines 228-229: the test that breaks the loop
loop_ends(records) == Len(records) < count

\* lines 206-229 (240-263, 274-297, 308-331): one page of the list
FetchPage ==
    /\ pc = "fetch"
    /\ \E records \in ListPages :
          /\ page' = page + 1
          /\ last_page' = records
          /\ records_out' = (records_out \/ records # <<>>)
          /\ cursor' = IF records # <<>> THEN records[Len(records)] ELSE cursor
          /\ IF records # <<>>
             THEN /\ state' = write_bookmark(state, stream_name,
                                             page_bookmark(stream_name, records))
                  /\ persisted' = write_state(state')
                  /\ bm_writes' = bm_writes + 1
             ELSE UNCHANGED <<state, persisted, bm_writes>>
          /\ full_pages' = IF Len(records) = count THEN full_pages + 1 ELSE full_pages
          /\ IF loop_ends(records)
             THEN EndEntity
             ELSE UNCHANGED <<pc, idx, completed>>
    /\ UNCHANGED <<selected, last_stream, stream_name, last_date, sleep, elapsed, status,
                   offset, max_updated_at, error, job, latency, restarted,
                   started, rows_seen, schema_writes, def_calls, sync_calls, bm_before,
                   prev_run>>

-----------------------------------------------------------------------------
(* Failures of the environment *)

\* client.get raises: a status poll, a data page or a list page fails
TransportError ==
    /\ pc \in {"poll", "drain", "fetch"}
    /\ Raise("TransportError", None)
    /\ UNCHANGED <<selected, state, persisted, last_stream, idx, stream_name, last_date,
                   sleep, elapsed, status, offset, max_updated_at, page, job, cursor,
                   latency, restarted, started, completed, rows_seen,
                   schema_writes, records_out, def_calls, sync_calls, bm_writes,
                   bm_before, last_page, prev_run, full_pages>>

\* the process ends (it returned, it raised, or it was killed where it stands) and
\* the next run starts from the last persisted state
Restart ==
    /\ ~restarted
    /\ pc # "start"
    /\ restarted' = TRUE
    /\ prev_run' = [current |-> persisted.current_stream,
                    in_progress |-> IF InSync \/ pc = "failed" THEN stream_name ELSE None,
                    completed |-> Range(completed)]
    /\ selected' \in Reselections(selected)
    /\ state' = persisted
    /\ pc' = "start"
    /\ last_stream' = None /\ idx' = 0 /\ stream_name' = None /\ last_date' = NoTime
    /\ sleep' = 0 /\ elapsed' = 0 /\ status' = None /\ offset' = 0
    /\ max_updated_at' = NoTime /\ page' = 0 /\ error' = NoError /\ job' = 0
    /\ cursor' = NoTime /\ started' = <<>> /\ completed' = <<>> /\ rows_seen' = {}
    /\ schema_writes' = 0 /\ records_out' = FALSE /\ def_calls' = 0 /\ sync_calls' = 0
    /\ bm_writes' = 0 /\ bm_before' = persisted.bookmarks /\ last_page' = <<>>
    /\ full_pages' = 0
    /\ UNCHANGED <<persisted, latency>>

-----------------------------------------------------------------------------

\* the steps of one run
Run ==
    \/ SyncStart
    \/ StartEntity
    \/ FinishRun
    \/ Submit
    \/ Poll
    \/ Sleep
    \/ DrainPage
    \/ FetchPage
    \/ TransportError

Next == Run \/ Restart

\* a first run and the run that follows it
Spec == Init /\ [][Next]_vars

\* a first run against a server whose export jobs may stay pending without limit;
\* client.get and time.sleep return, so a poll or a sleep that can happen does happen
InitDeadline ==
    /\ \E sel \in {{"accounts"}, {"custom_1", "visitors"}} : InitRun(sel, EmptyState)
    /\ latency = Forever
    /\ restarted = FALSE
    /\ prev_run = NoRun

SpecDeadline == InitDeadline /\ [][Run]_vars /\ WF_vars(Poll) /\ WF_vars(Sleep)

\* lines 163-188 with the clock left out: the job answers pending and the loop
\* draws its next interval, any value random.randint may give
Backoff ==
    /\ pc = "poll"
    /\ status' = "pending"
    /\ sleep' \in next_sleep_interval(sleep)
    /\ UNCHANGED <<selected, state, persisted, pc, last_stream, idx, stream_name,
                   last_date, elapsed, offset, max_updated_at, page, error, job, cursor,
                   latency, restarted, started, completed, rows_seen,
                   schema_writes, records_out, def_calls, sync_calls, bm_writes,
                   bm_before, last_page, prev_run, full_pages>>

NextBackoff == SyncStart \/ StartEntity \/ Submit \/ Backoff

InitBackoff ==
    /\ InitRun({"accounts"}, EmptyState)
    /\ latency = Forever
    /\ restarted = FALSE
    /\ prev_run = NoRun

\* runs that select REST entities only; client.get returns, so a page request that
\* can happen does happen
NextPaged == SyncStart \/ StartEntity \/ FetchPage \/ TransportError \/ FinishRun

InitPaged ==
    /\ \E sel \in {S \in Selections : S # {} /\ S \subseteq Paged} : InitRun(sel, EmptyState)
    /\ latency = MaxPending
    /\ restarted = FALSE
    /\ prev_run = NoRun

SpecPaged == InitPaged /\ [][NextPaged]_vars /\ WF_vars(FetchPage)

\* one poll loop, every draw of the intervals followed
SpecBackoff == InitBackoff /\ [][NextBackoff]_vars

-----------------------------------------------------------------------------
(* Properties *)

PlanPos(e) == CHOOSE i \in 1..Len(Plan) : Plan[i] = e
Precedes(a, b) == PlanPos(a) < PlanPos(b)
Last(s) == s[Len(s)]

\* the run is a resumed one: it started from a RunState whose current_stream is set
Resumed == restarted /\ prev_run.current # None

\* the watermark of the entity being synced, as its own bookmark entry gives it
OwnWatermark ==
    IF stream_name \in DOMAIN bm_before THEN bm_before[stream_name] ELSE start_date

\* the export of stream_name has been drained to its last page
BulkDone ==
    /\ stream_name \in Bulk
    /\ pc \in {"plan", "done"}
    /\ completed # <<>>
    /\ Last(completed) = stream_name

\* C1 as stated: a run resumed at X, whatever the catalog selects, syncs X and
\* syncs no entity that precedes X in the plan.
C1_ResumeAnySelection ==
    (Resumed /\ pc \in {"done", "failed"}) =>
        /\ prev_run.current \in Range(started)
        /\ \A e \in Range(started) : ~Precedes(e, prev_run.current)

\* C1 amended: a run resumed at X whose catalog selects at least one entity syncs
\* X first, selected or not, and syncs no entity that precedes X in the plan.
C1_Resume ==
    (Resumed /\ selected # {}) =>
        /\ pc \in {"done", "failed"} => prev_run.current \in Range(started)
        /\ started # <<>> => started[1] = prev_run.current
        /\ \A e \in Range(started) : ~Precedes(e, prev_run.current)

\* a resumed run has synced X, which is no longer selected, and has skipped a
\* selected entity that precedes X
C1_Witness ==
    /\ Resumed
    /\ pc = "done"
    /\ prev_run.current \notin selected
    /\ started = <<prev_run.current>>
    /\ \E e \in selected : Precedes(e, prev_run.current)

\* C2 as stated: the filter of an entity sync comes from the entity's own bookmark
\* entry, or from the start date when it has none, whatever the other entries are.
C2_OwnWatermark ==
    InSync => last_date = to_datetime_string(OwnWatermark)

\* C3 as stated: no step of a run lowers a stored bookmark.
C3_NeverDecreases ==
    [][\A e \in DOMAIN state.bookmarks :
          /\ e \in DOMAIN state'.bookmarks
          /\ state'.bookmarks[e] >= state.bookmarks[e]]_vars

\* C4: an export drained with at least one row has written the entity's bookmark
\* once, after the last page, and the value is the maximum update-time over all
\* rows of all pages.
C4_BulkMax ==
    /\ pc = "drain" => bm_writes = 0
    /\ (BulkDone /\ rows_seen # {}) =>
          /\ bm_writes = 1
          /\ stream_name \in DOMAIN state.bookmarks
          /\ state.bookmarks[stream_name] = SetMax(rows_seen)
          /\ persisted = state

\* two pages drained, three different update-times among the rows
C4_Witness ==
    /\ BulkDone
    /\ offset = 2 * limit
    /\ Cardinality(rows_seen) = 3
    /\ state.bookmarks[stream_name] = SetMax(rows_seen)

\* C5: an export whose pages all came empty writes no bookmark and flushes none:
\* every bookmark, in memory and persisted, is what it was when the sync started.
C5_EmptyDrain ==
    (BulkDone /\ rows_seen = {}) =>
        /\ bm_writes = 0
        /\ state.bookmarks = bm_before
        /\ persisted.bookmarks = bm_before

\* two empty pages drained for an entity that has a bookmark
C5_Witness ==
    /\ BulkDone
    /\ rows_seen = {}
    /\ offset = 2 * limit
    /\ stream_name \in DOMAIN state.bookmarks

\* C6: in a paged sync a bookmark is written after a page iff the page is not
\* empty, its value is the update-time of the page's last record, and it is not
\* below the bookmark written after an earlier page.
C6_PagedMonotone ==
    [][(pc = "fetch" /\ page' = page + 1) =>
          /\ (last_page' # <<>>) <=> (bm_writes' = bm_writes + 1)
          /\ last_page' = <<>> => (state' = state /\ persisted' = persisted)
          /\ last_page' # <<>> =>
                /\ state'.bookmarks[stream_name] = last_page'[Len(last_page')]
                /\ persisted' = state'
                /\ bm_writes >= 1 =>
                      state'.bookmarks[stream_name] >= state.bookmarks[stream_name]]_vars

\* a paged sync that has bookmarked two pages, the second above the first
C6_Witness ==
    /\ stream_name \in Paged
    /\ bm_writes = 2
    /\ last_page # <<>>
    /\ state.bookmarks[stream_name] = Last(last_page)
    /\ state.bookmarks[stream_name] > last_date

\* C7 as stated: the run after a crash resumes the interrupted entity from that
\* entity's own watermark, or, when the entity recorded in the RunState had
\* completed, starts with the next entity of the plan; it never syncs an entity
\* that had completed.
C7_CrashResumption ==
    (Resumed /\ started # <<>>) =>
        IF prev_run.current \in prev_run.completed
        THEN /\ started[1] \notin prev_run.completed
             /\ Precedes(prev_run.current, started[1])
        ELSE /\ started[1] = prev_run.current
             /\ (Len(started) = 1 /\ InSync) =>
                    last_date = to_datetime_string(OwnWatermark)

\* the persisted current_stream, when set, names the entity whose sync began last
CurrentNamesLastStarted ==
    /\ InSync => persisted.current_stream = stream_name
    /\ persisted.current_stream # None =>
          \/ started # <<>> /\ pc # "done" /\ persisted.current_stream = Last(started)
          \/ started = <<>> /\ persisted.current_stream = prev_run.current

\* C8 as stated: current_stream is set only from the start of a sync on, and the
\* pass, first or resumed, persists None only after every selected entity completed.
C8_NullAfterAllSelected ==
    /\ CurrentNamesLastStarted
    /\ (pc = "done" /\ selected # {}) =>
          /\ persisted.current_stream = None
          /\ selected \subseteq Range(completed)

\* C8 amended: the pass persists None only after every entity eligible in the pass
\* completed: the selected entities in a first pass, the resumed entity alone in a
\* resumed pass.
C8_NullAfterAllEligible ==
    /\ CurrentNamesLastStarted
    /\ (pc = "done" /\ selected # {}) =>
          /\ persisted.current_stream = None
          /\ Range(completed) = (IF last_stream = None THEN selected ELSE {last_stream})
    /\ (pc \in {"plan", "failed"} \/ InSync) => Range(completed) \subseteq
          (IF last_stream = None THEN selected ELSE {last_stream})

\* a resumed pass has ended, None persisted, with a selected entity not synced
C8_Witness ==
    /\ Resumed
    /\ pc = "done"
    /\ persisted.current_stream = None
    /\ Range(completed) = {last_stream}
    /\ \E e \in selected : e \notin Range(completed)

\* C9: a polled status other than success, active and pending raises an error that
\* names the stream and the status; nothing is emitted or bookmarked by that step,
\* and after it the run takes no step at all (only a next run can follow).
C9_JobFailed ==
    [][/\ (pc = "poll" /\ status' \notin {None, "pending", "success", "active"}) =>
             /\ pc' = "failed"
             /\ error' = [kind |-> "JobFailed", stream |-> stream_name, status |-> status']
             /\ UNCHANGED <<state, persisted, schema_writes, records_out, bm_writes, sleep>>
             /\ schema_writes = 0 /\ ~records_out /\ bm_writes = 0
       /\ pc = "failed" => (~restarted /\ restarted' /\ pc' = "start")]_vars

\* the job failed at a poll that followed a pending one
C9_Witness ==
    /\ pc = "failed"
    /\ error = [kind |-> "JobFailed", stream |-> stream_name, status |-> "error"]
    /\ stream_name \in Bulk
    /\ sleep > 0

\* C10: the poll loop ends; a pending status polled more than 3600 s after the
\* submit raises the deadline error (and only then), no sleep starts once the
\* 3600 s are exceeded, and a success or active status leads to the drain.
C10_PollLoop ==
    /\ [](pc = "sleep" => elapsed <= MAX_RETRY_ELAPSED_TIME)
    /\ [](error.kind = "DeadlineExceeded" =>
            /\ pc = "failed"
            /\ status = "pending"
            /\ elapsed > MAX_RETRY_ELAPSED_TIME
            /\ error.stream = stream_name)
    /\ [][(pc = "poll" /\ pc' # "failed") =>
            IF status' = "pending"
            THEN pc' = "sleep" /\ sleep' >= MIN_RETRY_INTERVAL
            ELSE pc' = "drain" /\ error' = NoError]_vars
    /\ [][(pc = "poll" /\ status' = "pending" /\ elapsed' > MAX_RETRY_ELAPSED_TIME
            /\ error'.kind # "TransportError") =>
            error'.kind = "DeadlineExceeded"]_vars
    /\ (pc \in {"poll", "sleep"}) ~> (pc \notin {"poll", "sleep"})

\* the deadline error, raised for a job that never left pending
C10_Witness ==
    /\ error.kind = "DeadlineExceeded"
    /\ elapsed > MAX_RETRY_ELAPSED_TIME
    /\ sleep = MAX_RETRY_INTERVAL

C12_SingleSubmit ==
    /\ def_calls <= 1
    /\ sync_calls <= def_calls
    /\ (stream_name \in Bulk /\ pc = "submit") => (def_calls = 0 /\ sync_calls = 0)
    /\ (stream_name \in Bulk /\
          (\/ pc \in {"poll", "sleep", "drain"}
           \/ BulkDone
           \/ pc = "failed" /\ error.kind \in {"JobFailed", "DeadlineExceeded"})) =>
          (def_calls = 1 /\ sync_calls = 1)

\* the loop is at its third status read, after two pending answers and two sleeps
C12_Witness ==
    /\ pc = "poll"
    /\ status = "pending"
    /\ job = 0
    /\ sleep > MIN_RETRY_INTERVAL
    /\ def_calls = 1
    /\ sync_calls = 1

\* C13: every assignment of current_stream and of a bookmark entry is persisted
\* before the next network call: whenever the run is about to issue a network
\* call, and when it has ended, the persisted state is the in-memory state.
C13_FlushedAtCalls ==
    /\ (InSync \/ pc \in {"plan", "done", "failed"}) => persisted = state
    /\ InSync => persisted.current_stream = stream_name

\* a list page was bookmarked and the next page is about to be requested
C13_Witness ==
    /\ pc = "fetch"
    /\ bm_writes >= 1
    /\ state.bookmarks # bm_before
    /\ persisted = state

\* C14 as stated: when a transport error ends an entity sync that has emitted a
\* record, the entity's persisted bookmark is the progress made (the maximum of
\* the rows drained so far for an export, the last record of the last full page
\* for a list), and the re-run of the entity filters from that bookmark.
C14_PartialProgress ==
    /\ (pc = "failed" /\ error.kind = "TransportError" /\ records_out) =>
          /\ stream_name \in DOMAIN persisted.bookmarks
          /\ persisted.bookmarks[stream_name] =
                (IF stream_name \in Bulk THEN SetMax(rows_seen)
                                          ELSE page_bookmark(stream_name, last_page))
    /\ (Resumed /\ InSync /\ Len(started) = 1 /\ stream_name = prev_run.in_progress
          /\ stream_name \in DOMAIN bm_before) =>
          last_date = to_datetime_string(bm_before[stream_name])

\* C15: a run whose catalog selects nothing does nothing: no entity sync starts,
\* no network call, no schema, no record, the plan is not walked, and the
\* RunState, in memory and persisted, is the one the run started from, whatever
\* its current_stream and its bookmarks are.
C15_EmptySelectionNoOp ==
    (selected = {}) =>
        /\ pc \in {"start", "done"}
        /\ idx = 0
        /\ started = <<>> /\ completed = <<>>
        /\ def_calls = 0 /\ sync_calls = 0 /\ page = 0 /\ offset = 0
        /\ schema_writes = 0 /\ ~records_out /\ bm_writes = 0
        /\ error = NoError
        /\ state = persisted
        /\ state.bookmarks = bm_before
        /\ state.current_stream = prev_run.current

\* a run with an empty selection has returned, from a RunState that names an
\* entity and holds a bookmark
C15_Witness ==
    /\ selected = {}
    /\ pc = "done"
    /\ restarted
    /\ persisted.current_stream # None
    /\ DOMAIN persisted.bookmarks # {}

\* the order C16 states: the built-in objects, the activity-type variants, the
\* custom-object variants, then visitors, campaigns, emails, forms
StatedOrder ==
    <<"accounts", "activity_email_open", "custom_1",
      "visitors", "campaigns", "emails", "forms">>
StatedPos(e) == CHOOSE i \in 1..Len(StatedOrder) : StatedOrder[i] = e

\* the run started from a RunState whose current_stream is not set
FreshPass == ~restarted \/ prev_run.current = None

\* C16: in a run started with current_stream unset, the entities synced are
\* selected ones, each once, in the stated order, none skipped, each one completed
\* before the next starts; when the run returns they are exactly the selected
\* ones; the current_stream persisted at a sync is the entity that started last.
C16_PlanOrder ==
    FreshPass =>
        /\ Range(started) \subseteq selected
        /\ \A i \in 1..Len(started) : \A j \in 1..Len(started) :
              i < j => StatedPos(started[i]) < StatedPos(started[j])
        /\ \A e \in selected :
              (started # <<>> /\ StatedPos(e) < StatedPos(Last(started))) =>
                  e \in Range(started)
        /\ Len(completed) <= Len(started)
        /\ completed = SubSeq(started, 1, Len(completed))
        /\ (InSync \/ pc = "failed") => Len(started) = Len(completed) + 1
        /\ pc \in {"plan", "done"} => completed = started
        /\ pc = "done" => Range(completed) = selected
        /\ InSync => (persisted.current_stream = Last(started) /\ stream_name = Last(started))

\* a first run has synced an export and then a REST entity, and has returned
C16_Witness ==
    /\ ~restarted
    /\ pc = "done"
    /\ completed = <<"custom_1", "visitors">>
    /\ selected = {"custom_1", "visitors"}
    /\ persisted.current_stream = None

\* C17: an entity sync writes its schema once and before its first record; an
\* export writes it only when the poll loop was left on success or active, so an
\* export that is still submitting or polling, or whose job failed, timed out or
\* gave no sync id, has written neither a schema nor a record.
C17_SchemaBeforeRecords ==
    /\ schema_writes <= 1
    /\ records_out => schema_writes = 1
    /\ (stream_name \in Paged /\ InSync) => schema_writes = 1
    /\ (stream_name \in Bulk /\ pc \in {"submit", "poll", "sleep"}) =>
          (schema_writes = 0 /\ ~records_out)
    /\ pc = "drain" => (schema_writes = 1 /\ status \in {"success", "active"})
    /\ (pc = "failed" /\
          error.kind \in {"JobFailed", "DeadlineExceeded", "MalformedJobReference"}) =>
          (schema_writes = 0 /\ ~records_out)
    /\ (completed # <<>> /\ Last(completed) = stream_name) => schema_writes = 1

\* an export left its poll loop on active; a page of rows was drained and more follow
C17_Witness ==
    /\ stream_name \in Bulk
    /\ status = "active"
    /\ offset = limit
    /\ pc = "drain"
    /\ records_out
    /\ schema_writes = 1

\* the entities the rule of C18 makes eligible in this pass
EligibleSet == IF last_stream = None THEN selected ELSE {last_stream}

\* C18: last_stream is the current_stream the run started from, read once and not
\* changed by the current_stream the run writes; the entities synced in the pass
\* are those that are selected when last_stream is unset, and last_stream alone
\* when it is set; a pass that returns has synced all of them and has persisted
\* current_stream = None.
C18_Eligibility ==
    (selected # {} /\ pc # "start") =>
        /\ last_stream = (IF restarted THEN prev_run.current ELSE None)
        /\ Range(started) \subseteq EligibleSet
        /\ last_stream # None => \A i \in 1..Len(started) : started[i] = last_stream
        /\ Len(started) <= Cardinality(EligibleSet)
        /\ pc = "done" =>
              /\ Range(completed) = EligibleSet
              /\ persisted.current_stream = None
              /\ state.current_stream = None

\* a pass resumed at X has returned: it synced X alone although the selection
\* holds an entity that follows X in the plan
C18_Witness ==
    /\ Resumed
    /\ pc = "done"
    /\ last_stream # None
    /\ completed = <<last_stream>>
    /\ \E e \in selected : Precedes(last_stream, e)
    /\ persisted.current_stream = None

FatalErrors == {"JobFailed", "DeadlineExceeded", "MalformedJobReference", "TransportError"}

\* the bookmarks of the entities other than stream_name are those the sync started with
OthersUnchanged(bm) ==
    /\ DOMAIN bm \ {stream_name} = DOMAIN bm_before \ {stream_name}
    /\ \A e \in DOMAIN bm \ {stream_name} : bm[e] = bm_before[e]

\* C19: current_stream = E is persisted before the first network call of E's
\* sync and stays so during the sync; an error of E's sync ends the run: no step
\* of the run follows it, the entity that started last is E, the persisted
\* current_stream is E, and the persisted bookmarks of the other entities are
\* those E's sync started with.
C19_PointerOnFailure ==
    /\ [](InSync => (persisted.current_stream = stream_name
                       /\ OthersUnchanged(persisted.bookmarks)))
    /\ [](error # NoError => (pc = "failed" /\ error.kind \in FatalErrors))
    /\ [](pc = "failed" =>
            /\ error.kind \in FatalErrors
            /\ error.stream = stream_name
            /\ Last(started) = stream_name
            /\ Len(completed) = Len(started) - 1
            /\ persisted.current_stream = stream_name
            /\ OthersUnchanged(persisted.bookmarks))
    /\ [][pc = "failed" => (~restarted /\ restarted' /\ pc' = "start")]_vars

\* the list sync that follows a bookmarked export fails after it bookmarked a page
C19_Witness ==
    /\ pc = "failed"
    /\ error.kind = "TransportError"
    /\ stream_name = "visitors"
    /\ completed = <<"custom_1">>
    /\ DOMAIN persisted.bookmarks = {"custom_1", "visitors"}
    /\ persisted.current_stream = "visitors"

\* C20: a paged sync asks for page 1, 2, 3, ... (one more at every request) with
\* the filter computed at its start; a request that returns fewer than count
\* records, none included, is the last one and every request that returns count
\* records is followed by another; so the requests made are the full pages
\* received plus one when the sync returns; and the loop ends.
C20_PagedTermination ==
    /\ []((stream_name \in Paged /\ pc = "fetch") =>
            /\ page = full_pages + 1
            /\ (page > 1 => Len(last_page) = count))
    /\ []((stream_name \in Paged /\ completed # <<>> /\ Last(completed) = stream_name) =>
            /\ page - 1 = full_pages + 1
            /\ Len(last_page) < count)
    /\ [][(pc = "fetch" /\ pc' # "failed") =>
            /\ page' = page + 1
            /\ last_date' = last_date
            /\ (Len(last_page') < count) <=> (pc' = "plan")
            /\ (Len(last_page') = count) <=> (pc' = "fetch")]_vars
    /\ (pc = "fetch") ~> (pc # "fetch")

\* a paged sync has returned after a full page and an empty one
C20_Witness ==
    /\ stream_name \in Paged
    /\ pc = "plan"
    /\ Last(completed) = stream_name
    /\ full_pages = 1
    /\ page = 3
    /\ last_page = <<>>

=============================================================================
